---- MODULE Spec2Model ----
(***************************************************************************)
(* A model of yellowlet: a wrapper function that runs an async function in *)
(* a Worker thread and blocks the calling thread with Atomics.wait() on a  *)
(* shared signal word until the worker has posted the outcome.             *)
(*                                                                         *)
(* src/src/yellowlet.ts holds two implementations of the bridge:           *)
(*   "v1"  lines 46-195: workerMain + yellowlet/run (correlation ids, the  *)
(*         worker answers with globalThis.postMessage);                    *)
(*   "v2"  lines 199-318: yellowlet/wrapper + the worker module with       *)
(*         handleCall (no ids, the worker answers on the MessagePort).     *)
(* The variable `variant` says which of the two is loaded; every action is *)
(* translated from the code of the loaded one.                             *)
(*                                                                         *)
(* Threads: one caller thread (pc) and one worker thread per session.  The *)
(* steps of both are interleaved freely; each step is one statement (or a  *)
(* run of statements the other thread cannot observe) of the source.       *)
(*                                                                         *)
(* Read as written: names resolve in the file as it stands (run's          *)
(* isTransferable is the import of ./isTransferable.ts), and the open      *)
(* handshake of v2 yields what its type assertion says, the open message   *)
(* data (p-event is not part of the sources).  A promise rejection nobody  *)
(* handles ends the listener it happens in; the worker thread goes on.     *)
(***************************************************************************)
EXTENDS Integers, Sequences, FiniteSets, TLC

(* ---------------------------------------------------------------- bounds *)
\* the number of invocations the caller makes in one behaviour
MaxCalls == 2

\* the inactivity window of the README's lifecycle diagram ("Idle 5s")
IdleWindow == 5

Handles == {"w1", "w2"}
Variants == {"v1", "v2"}

(* ---------------------------------------------------------------- values *)
\* A JavaScript value: k is its kind (the typeof / the class), n a number's
\* value, s a string's text or an error's message.
Num(n) == [k |-> "number", n |-> n, s |-> ""]
NaN == [k |-> "number", n |-> 0, s |-> "NaN"]
Undefined == [k |-> "undefined", n |-> 0, s |-> ""]
Err(msg) == [k |-> "Error", n |-> 0, s |-> msg]
\* an object that structuredClone refuses (a function, a socket, ...)
Closure == [k |-> "function", n |-> 0, s |-> ""]
\* an ArrayBuffer: the one transferable kind the model's values hold
Buffer == [k |-> "ArrayBuffer", n |-> 0, s |-> ""]
EmptyObject == [k |-> "object", n |-> 0, s |-> ""]
DOMExceptionEmpty == [k |-> "DOMException", n |-> 0, s |-> ""]
DataCloneError == [k |-> "DOMException", n |-> 0, s |-> "DataCloneError"]
TypeErrorNoMessage ==
    [k |-> "TypeError", n |-> 0,
     s |-> "Cannot read properties of undefined (reading 'message')"]

GlobalThis == [k |-> "globalThis", n |-> 0, s |-> ""]
Ctx == [k |-> "object", n |-> 0, s |-> "ctx"]

\* the invocations the caller makes: handle.call(ctx, 21, buffer), a context
\* object, a number and an ArrayBuffer
Invocations == {[this |-> Ctx, args |-> <<Num(21), Buffer>>]}
\* the random 4-character ids of run (two of them: equal or different)
Ids == {"k3x9", "q0zt"}

NoId == ""
IdsOf(v) == IF v = "v1" THEN Ids ELSE {NoId}

\* the functions handed to the factory, and one argument that is no function
Functions == {"double", "boom", "reject", "closure", "rejectClosure"}
FactoryArgs == Functions \cup {"notAFunction"}

\* typeof f === "function"
IsFunction(f) == f \in Functions

\* f.call(that, ...args): how the wrapped function settles; sync says that
\* it throws before it returns anything (no promise is made).
\*   double         x => x * 2
\*   boom           () => { throw new Error("boom") }
\*   reject         async () => { throw new Error("boom") }
\*   closure        () => () => 1             (fulfils with an unclonable)
\*   rejectClosure  async () => { throw () => 1 } (rejects with an unclonable)
Call(f, that, args) ==
    CASE f = "double" ->
           [status |-> "fulfilled", sync |-> FALSE,
            val |-> IF Len(args) >= 1 /\ args[1].k = "number" /\ args[1].s = ""
                    THEN Num(2 * args[1].n) ELSE NaN]
      [] f = "boom" ->
           [status |-> "rejected", sync |-> TRUE, val |-> Err("boom")]
      [] f = "reject" ->
           [status |-> "rejected", sync |-> FALSE, val |-> Err("boom")]
      [] f = "closure" ->
           [status |-> "fulfilled", sync |-> FALSE, val |-> Closure]
      [] OTHER ->
           [status |-> "rejected", sync |-> FALSE, val |-> Closure]

\* how a computation settled, as the properties below read it
Exec(r) == [status |-> r.status, val |-> r.val]

(* -------------------------------------------------- transfer classifier *)
TransferableKinds ==
    {"ArrayBuffer", "MessagePort", "ReadableStream", "WritableStream",
     "TransformStream", "ImageBitmap", "OffscreenCanvas"}

\* !!o && typeof o === "object" && (one of the prototypes)
isTransferable(o) == o.k \in TransferableKinds

\* list.filter(isTransferable)
TransferList(list) == SelectSeq(list, isTransferable)

\* the structured clone of postMessage: a function cannot be cloned
\* (DataCloneError); every other kind of the model arrives deep-equal.
Clonable(v) == v.k # "function"
StructuredClone(v) == IF Clonable(v) THEN v ELSE DataCloneError

\* this === globalThis ? undefined : this
ThatOf(this) == IF this = GlobalThis THEN Undefined ELSE this

(* ----------------------------------------------------------------- state *)
VARIABLES
    variant,      \* which implementation is loaded: "v1" or "v2"
    handle,       \* handle[h]: "none" | "live" (reachable) | "dropped"
    fn,           \* fn[h]: the function the handle wraps
    registered,   \* the handles held by finalizationRegistry
    worker,       \* worker[h]: "none" | "running" | "terminated"
    inbox,        \* inbox[h]: messages posted to the worker's global scope
    opened,       \* opened[h]: the worker has attached its call listener
    signal,       \* signal[h]: signal[0] of the session's SharedArrayBuffer
    toWorker,     \* toWorker[h]: messages queued on the worker's port
    toCaller,     \* toCaller[h]: messages queued on the caller's port
    tasks,        \* tasks[h]: the listener executions in flight in the worker
    pc,           \* where the caller thread is
    cur,          \* the invocation the caller thread is in
    calls,        \* invocations started so far
    last,         \* the invocation that returned or raised last, kept until
                  \* the next one starts: its outcome
                  \* (out), how its computation settled (exec), the invocation
                  \* whose settle envelope it consumed (got, 0 if none) and
                  \* the signal word when it returned (sig)
    idle,         \* time units since the last invocation started
    lastFactory,  \* how the last factory call ended: "none" | "ok" | "TypeError"
    repeats       \* the handles whose worker was told to terminate again
                  \* after it had terminated

vars == <<variant, handle, fn, registered, worker, inbox, opened, signal,
          toWorker, toCaller, tasks, pc, cur, calls, last, idle,
          lastFactory, repeats>>

\* signal[h] of a handle whose SharedArrayBuffer was never allocated
NoSignal == -1

NoExec == [status |-> "none", val |-> Undefined]
NoOutcome == [kind |-> "none", val |-> Undefined]
NoCall == [h |-> "", id |-> NoId, that |-> Undefined, args |-> <<>>, seq |-> 0,
           exec |-> NoExec, moved |-> {}]
NoLast == [h |-> "", seq |-> 0, out |-> NoOutcome, exec |-> NoExec, got |-> 0,
           sig |-> 0]

Init ==
    /\ variant \in Variants
    /\ handle = [h \in Handles |-> "none"]
    /\ fn = [h \in Handles |-> ""]
    /\ registered = {}
    /\ worker = [h \in Handles |-> "none"]
    /\ inbox = [h \in Handles |-> <<>>]
    /\ opened = [h \in Handles |-> FALSE]
    /\ signal = [h \in Handles |-> NoSignal]
    /\ toWorker = [h \in Handles |-> <<>>]
    /\ toCaller = [h \in Handles |-> <<>>]
    /\ tasks = [h \in Handles |-> {}]
    /\ pc = "idle"
    /\ cur = NoCall
    /\ calls = 0
    /\ last = NoLast
    /\ idle = 0
    /\ lastFactory = "none"
    /\ repeats = {}

(* ------------------------------------------------------------- envelopes *)
OpenMessage == [type |-> "open"]

\* The transfer list of the call envelope: run passes
\* args.filter(isTransferable) (the name resolves to the module's import of
\* ./isTransferable.ts); wrapper passes no transfer list.
CallTransfer(args) == IF variant = "v1" THEN TransferList(args) ELSE <<>>

\* postMessage(message, transfer): the arguments whose caller-side object
\* is detached by the post, as positions of the argument list
Moved(args, transfer) ==
    {i \in 1..Len(args) : \E j \in 1..Len(transfer) : transfer[j] = args[i]}

\* The call envelope of run / wrapper.  seq is not part of the message: it
\* numbers the invocation the envelope belongs to, for the properties below.
CallMessage(id, that, args, seq) ==
    [type |-> "call", id |-> id, this |-> StructuredClone(that),
     arguments |-> [i \in 1..Len(args) |-> StructuredClone(args[i])],
     transfer |-> CallTransfer(args),
     seq |-> seq]

\* The settle envelope of the worker (v1: type fulfilled | rejected with
\* value | reason; v2: type settle with status and value | reason).
SettleMessage(id, status, val, seq) ==
    [status |-> status, id |-> id, val |-> StructuredClone(val),
     transfer |-> TransferList(<<val>>), seq |-> seq]

(* ----------------------------------------------------- the caller thread *)
\* handles are created in this order
FreeHandle(h) ==
    /\ handle[h] = "none"
    /\ h = "w2" => handle["w1"] # "none"

\* new Worker, new MessageChannel, new SharedArrayBuffer(4),
\* worker.postMessage(open), finalizationRegistry.register(run, worker)
CreateSession(h, f) ==
    /\ handle' = [handle EXCEPT ![h] = "live"]
    /\ fn' = [fn EXCEPT ![h] = f]
    /\ worker' = [worker EXCEPT ![h] = "running"]
    /\ signal' = [signal EXCEPT ![h] = 0]
    /\ inbox' = [inbox EXCEPT ![h] = <<OpenMessage>>]
    /\ registered' = registered \cup {h}

\* a factory that builds the session before it tests its argument
FactoryChecksLate(h, f) ==
    /\ pc = "idle"
    /\ FreeHandle(h)
    /\ lastFactory' = IF IsFunction(f) THEN "ok" ELSE "TypeError"
    /\ CreateSession(h, f)
    /\ UNCHANGED <<variant, opened, toWorker, toCaller, tasks, pc, cur, calls,
                   last, idle, repeats>>

\* yellowlet(f): the factory
Factory(h, f) ==
    /\ pc = "idle"
    /\ FreeHandle(h)
    /\ IF ~IsFunction(f)
       THEN /\ lastFactory' = "TypeError"
            /\ UNCHANGED <<handle, fn, worker, signal, inbox, registered>>
       ELSE /\ lastFactory' = "ok"
            /\ CreateSession(h, f)
    /\ UNCHANGED <<variant, opened, toWorker, toCaller, tasks, pc,
                   cur, calls, last, idle, repeats>>

\* an invocation that marks the call pending in one signal word shared by
\* every handle
InvokeSharedSignal(max, h, inv, id) ==
    /\ pc = "idle"
    /\ handle[h] = "live"
    /\ calls < max
    /\ id \in IdsOf(variant)
    /\ calls' = calls + 1
    /\ cur' = [h |-> h, id |-> id, that |-> ThatOf(inv.this), args |-> inv.args,
               seq |-> calls + 1, exec |-> NoExec, moved |-> {}]
    /\ signal' = [g \in Handles |-> IF signal[g] = NoSignal THEN NoSignal ELSE 1]
    /\ pc' = "post"
    /\ idle' = 0
    /\ last' = NoLast
    /\ UNCHANGED <<variant, handle, fn, registered, worker, inbox, opened,
                   toWorker, toCaller, tasks, lastFactory, repeats>>

\* run / wrapper, up to signal[0] = 1, as one of at most max invocations
InvokeUpTo(max, h, inv, id) ==
    /\ pc = "idle"
    /\ handle[h] = "live"
    /\ calls < max
    /\ id \in IdsOf(variant)
    /\ calls' = calls + 1
    /\ cur' = [h |-> h, id |-> id, that |-> ThatOf(inv.this), args |-> inv.args,
               seq |-> calls + 1, exec |-> NoExec, moved |-> {}]
    /\ signal' = [signal EXCEPT ![h] = 1]
    /\ pc' = "post"
    /\ idle' = 0
    /\ last' = NoLast
    /\ UNCHANGED <<variant, handle, fn, registered, worker, inbox, opened,
                   toWorker, toCaller, tasks, lastFactory, repeats>>

Invoke(h, inv, id) == InvokeUpTo(MaxCalls, h, inv, id)

\* port.postMessage(call envelope, transfer list); a message posted to the
\* port of a terminated worker is discarded
CallPost ==
    /\ pc = "post"
    /\ toWorker' =
         IF worker[cur.h] = "running"
         THEN [toWorker EXCEPT ![cur.h] =
                 Append(@, CallMessage(cur.id, cur.that, cur.args, cur.seq))]
         ELSE toWorker
    /\ cur' = [cur EXCEPT !.moved = Moved(cur.args, CallTransfer(cur.args))]
    /\ pc' = "wait"
    /\ UNCHANGED <<variant, handle, fn, registered, worker, inbox, opened,
                   signal, toCaller, tasks, calls, last, idle, lastFactory, repeats>>

\* a wait that puts the thread to sleep without comparing the word with 1
CallWaitUnconditional ==
    /\ pc = "wait"
    /\ pc' = "asleep"
    /\ UNCHANGED <<variant, handle, fn, registered, worker, inbox, opened,
                   signal, toWorker, toCaller, tasks, cur, calls,
                   last, idle, lastFactory, repeats>>

\* Atomics.wait(signal, 0, 1): returns at once ("not-equal") when the word
\* is not 1, otherwise the thread sleeps until it is notified
CallWait ==
    /\ pc = "wait"
    /\ pc' = IF signal[cur.h] # 1 THEN "reset" ELSE "asleep"
    /\ UNCHANGED <<variant, handle, fn, registered, worker, inbox, opened,
                   signal, toWorker, toCaller, tasks, cur, calls,
                   last, idle, lastFactory, repeats>>

\* signal[0] = 0
CallReset ==
    /\ pc = "reset"
    /\ signal' = [signal EXCEPT ![cur.h] = 0]
    /\ pc' = "drain"
    /\ UNCHANGED <<variant, handle, fn, registered, worker, inbox, opened,
                   toWorker, toCaller, tasks, cur, calls, last, idle,
                   lastFactory, repeats>>

Return(v) == [kind |-> "return", val |-> v]
Throw(v) == [kind |-> "throw", val |-> v]

\* v1, run: receiveMessageOnPort(port)!.message, then the id and type tests
DrainRun(queue, id) ==
    IF queue = <<>>
    THEN Throw(TypeErrorNoMessage)
    ELSE IF Head(queue).id = id
         THEN IF Head(queue).status = "fulfilled"
              THEN Return(Head(queue).val)
              ELSE IF Head(queue).status = "rejected"
                   THEN Throw(Head(queue).val)
                   ELSE Throw(EmptyObject)
         ELSE Throw(EmptyObject)

\* v2, wrapper: receiveMessageOnPort(port), then the status test
DrainWrapper(queue) ==
    IF queue = <<>>
    THEN Throw(DOMExceptionEmpty)
    ELSE IF Head(queue).status = "fulfilled"
         THEN Return(Head(queue).val)
         ELSE Throw(Head(queue).val)

Drain(queue, id) ==
    IF variant = "v1" THEN DrainRun(queue, id) ELSE DrainWrapper(queue)

\* receiveMessageOnPort(port) and the return or throw that ends the call
CallDrain ==
    /\ pc = "drain"
    /\ last' = [h |-> cur.h, seq |-> cur.seq,
                out |-> Drain(toCaller[cur.h], cur.id), exec |-> cur.exec,
                got |-> IF toCaller[cur.h] = <<>> THEN 0
                        ELSE Head(toCaller[cur.h]).seq,
                sig |-> signal[cur.h]]
    /\ toCaller' = [toCaller EXCEPT ![cur.h] =
                      IF @ = <<>> THEN @ ELSE Tail(@)]
    /\ cur' = NoCall
    /\ pc' = "idle"
    /\ UNCHANGED <<variant, handle, fn, registered, worker, inbox, opened,
                   signal, toWorker, tasks, calls, idle,
                   lastFactory, repeats>>

(* ----------------------------------------------------- the worker thread *)
\* the "message" listener of the worker's global scope: on the open message
\* it takes the port and the signal buffer, attaches the call listener and
\* starts the port
WorkerOpen(h) ==
    /\ worker[h] = "running"
    /\ inbox[h] # <<>>
    /\ Head(inbox[h]).type = "open"
    /\ inbox' = [inbox EXCEPT ![h] = Tail(@)]
    /\ opened' = [opened EXCEPT ![h] = TRUE]
    /\ UNCHANGED <<variant, handle, fn, registered, worker, signal, toWorker,
                   toCaller, tasks, pc, cur, calls, last, idle,
                   lastFactory, repeats>>

\* what the call listener hands to the wrapped function.
\*   v1: f.call(that, ...args) with that and args taken from the envelope;
\*   v2: handleCall runs function_.call(): no this value and no arguments.
CallThat(msg) == IF variant = "v1" THEN msg.this ELSE Undefined
CallArgs(msg) == IF variant = "v1" THEN msg.arguments ELSE <<>>

\* v1 copies the id of the envelope; v2's envelope has no channel field
SettleId(msg) == IF variant = "v1" THEN msg.id ELSE NoId

\* v2: handleCall evaluates function_.call() before Promise.resolve, so a
\* function that throws synchronously throws out of the listener and neither
\* .then nor .catch runs.  v1 calls f inside try and catches the throw.
ThrowsOutOfListener(r) == variant = "v2" /\ r.sync /\ r.status = "rejected"

\* the call listener of the port: takes one call envelope and starts the
\* wrapped function; the listener then waits for its result
WorkerReceive(h) ==
    /\ worker[h] = "running"
    /\ opened[h]
    /\ toWorker[h] # <<>>
    /\ LET msg == Head(toWorker[h])
           r == Call(fn[h], CallThat(msg), CallArgs(msg))
       IN IF ThrowsOutOfListener(r)
          THEN /\ cur' = IF cur.seq = msg.seq
                         THEN [cur EXCEPT !.exec = Exec(r)] ELSE cur
               /\ last' = IF last.seq = msg.seq
                          THEN [last EXCEPT !.exec = Exec(r)] ELSE last
               /\ UNCHANGED tasks
          ELSE /\ tasks' = [tasks EXCEPT ![h] = @ \cup
                             {[seq |-> msg.seq, id |-> SettleId(msg),
                               that |-> CallThat(msg), args |-> CallArgs(msg),
                               sentThat |-> msg.this,
                               sentArgs |-> msg.arguments,
                               st |-> "await", status |-> "none"]}]
               /\ UNCHANGED <<cur, last>>
    /\ toWorker' = [toWorker EXCEPT ![h] = Tail(@)]
    /\ UNCHANGED <<variant, handle, fn, registered, worker, inbox, opened,
                   signal, toCaller, pc, calls, idle, lastFactory, repeats>>

\* The settle envelope the listener manages to post for a computation that
\* settled as r, or "none" when postMessage throws and nothing handles it.
\*   v1: try/await/catch; a DataCloneError of postMessage, in the catch
\*       block or after it, rejects the async listener.
\*   v2: .then(post fulfilled).catch(post rejected): a DataCloneError of
\*       the first postMessage reaches the catch handler, which posts it as
\*       the reason; one of the second postMessage is unhandled.
Settled(r) ==
    IF Clonable(r.val)
    THEN r
    ELSE IF variant = "v2" /\ r.status = "fulfilled"
         THEN [status |-> "rejected", val |-> DataCloneError]
         ELSE [status |-> "none", val |-> Undefined]

\* the wrapped function settles and the listener posts the settle envelope:
\* v1 with globalThis.postMessage (to the parent), v2 with port.postMessage
WorkerSettle(h, t) ==
    /\ worker[h] = "running"
    /\ t \in tasks[h]
    /\ t.st = "await"
    /\ LET r == Call(fn[h], t.that, t.args)
           p == Settled(r)
           msg == SettleMessage(t.id, p.status, p.val, t.seq)
       IN /\ tasks' = [tasks EXCEPT ![h] =
                         IF p.status = "none"
                         THEN @ \ {t}
                         ELSE (@ \ {t}) \cup
                              {[t EXCEPT !.st = "write",
                                         !.status = p.status]}]
          /\ toCaller' = IF variant = "v2" /\ p.status # "none"
                         THEN [toCaller EXCEPT ![h] = Append(@, msg)]
                         ELSE toCaller
          /\ cur' = IF cur.seq = t.seq THEN [cur EXCEPT !.exec = Exec(r)]
                    ELSE cur
          /\ last' = IF last.seq = t.seq THEN [last EXCEPT !.exec = Exec(r)]
                     ELSE last
    /\ UNCHANGED <<variant, handle, fn, registered, worker, inbox, opened,
                   signal, toWorker, pc, calls, idle, lastFactory, repeats>>

\* signal[0] = 2
WorkerWrite(h, t) ==
    /\ worker[h] = "running"
    /\ t \in tasks[h]
    /\ t.st = "write"
    /\ signal' = [signal EXCEPT ![h] = 2]
    /\ tasks' = [tasks EXCEPT ![h] = (@ \ {t}) \cup {[t EXCEPT !.st = "notify"]}]
    /\ UNCHANGED <<variant, handle, fn, registered, worker, inbox, opened,
                   toWorker, toCaller, pc, cur, calls, last, idle,
                   lastFactory, repeats>>

\* Atomics.notify(signal, 0): wakes the caller if it sleeps on this word
WorkerNotify(h, t) ==
    /\ worker[h] = "running"
    /\ t \in tasks[h]
    /\ t.st = "notify"
    /\ tasks' = [tasks EXCEPT ![h] = @ \ {t}]
    /\ pc' = IF pc = "asleep" /\ cur.h = h THEN "reset" ELSE pc
    /\ UNCHANGED <<variant, handle, fn, registered, worker, inbox, opened,
                   signal, toWorker, toCaller, cur, calls, last,
                   idle, lastFactory, repeats>>

(* ----------------------------------------------------------- termination *)
\* a termination done by queueing a close request for the thread, whatever
\* state the thread is in
TerminateByCloseRequest(h) ==
    /\ worker' = [worker EXCEPT ![h] = "terminated"]
    /\ tasks' = [tasks EXCEPT ![h] = {}]
    /\ inbox' = [inbox EXCEPT ![h] = Append(@, [type |-> "close"])]
    /\ toWorker' = [toWorker EXCEPT ![h] = <<>>]

\* worker.terminate(): the thread stops; what it had queued is discarded
Terminate(h) ==
    /\ worker' = [worker EXCEPT ![h] = "terminated"]
    /\ tasks' = [tasks EXCEPT ![h] = {}]
    /\ inbox' = [inbox EXCEPT ![h] = <<>>]
    /\ toWorker' = [toWorker EXCEPT ![h] = <<>>]

\* the caller drops its last reference to the handle
Drop(h) ==
    /\ pc = "idle"
    /\ handle[h] = "live"
    /\ handle' = [handle EXCEPT ![h] = "dropped"]
    /\ UNCHANGED <<variant, fn, registered, worker, inbox, opened, signal,
                   toWorker, toCaller, tasks, pc, cur, calls, last,
                   idle, lastFactory, repeats>>

\* a registry whose callback also runs for a handle that is still reachable
FinalizeReachable(h) ==
    /\ h \in registered
    /\ handle[h] # "none"
    /\ registered' = registered \ {h}
    /\ repeats' = IF worker[h] = "terminated" THEN repeats \cup {h}
                  ELSE repeats
    /\ Terminate(h)
    /\ UNCHANGED <<variant, handle, fn, opened, signal, toCaller, pc, cur,
                   calls, last, idle, lastFactory>>

\* the callback of finalizationRegistry, run once for a collected handle
Finalize(h) ==
    /\ h \in registered
    /\ handle[h] = "dropped"
    /\ registered' = registered \ {h}
    /\ repeats' = IF worker[h] = "terminated" THEN repeats \cup {h}
                  ELSE repeats
    /\ Terminate(h)
    /\ UNCHANGED <<variant, handle, fn, opened, signal, toCaller, pc, cur,
                   calls, last, idle, lastFactory>>

\* v2 exposes the worker as wrapper.worker: the caller terminates it
ExplicitTerminate(h) ==
    /\ variant = "v2"
    /\ pc = "idle"
    /\ handle[h] = "live"
    /\ Terminate(h)
    /\ UNCHANGED <<variant, handle, fn, registered, opened, signal, toCaller,
                   pc, cur, calls, last, idle, lastFactory, repeats>>

\* the inactivity window passes while the caller makes no invocation and
\* no worker has a call in hand
IdlePasses ==
    /\ pc = "idle"
    /\ \E h \in Handles : worker[h] # "none"
    /\ \A h \in Handles : tasks[h] = {} /\ toWorker[h] = <<>>
    /\ idle < IdleWindow
    /\ idle' = IdleWindow
    /\ UNCHANGED <<variant, handle, fn, registered, worker, inbox, opened,
                   signal, toWorker, toCaller, tasks, pc, cur, calls,
                   last, lastFactory, repeats>>

Next ==
    \/ \E h \in Handles, f \in FactoryArgs : Factory(h, f)
    \/ \E h \in Handles, inv \in Invocations, id \in Ids \cup {NoId} :
         Invoke(h, inv, id)
    \/ CallPost
    \/ CallWait
    \/ CallReset
    \/ CallDrain
    \/ \E h \in Handles : WorkerOpen(h)
    \/ \E h \in Handles : WorkerReceive(h)
    \/ \E h \in Handles : \E t \in tasks[h] : WorkerSettle(h, t)
    \/ \E h \in Handles : \E t \in tasks[h] : WorkerWrite(h, t)
    \/ \E h \in Handles : \E t \in tasks[h] : WorkerNotify(h, t)
    \/ \E h \in Handles : Drop(h)
    \/ \E h \in Handles : Finalize(h)
    \/ \E h \in Handles : ExplicitTerminate(h)
    \/ IdlePasses

Spec == Init /\ [][Next]_vars

\* the finalizer facility is fair: the callback of a collected handle runs
FairSpec == Spec /\ \A h \in Handles : WF_vars(Finalize(h))

\* both threads keep running: a step of the caller's invocation or of a
\* worker that can be taken is eventually taken
Progress ==
    \/ CallPost \/ CallWait \/ CallReset \/ CallDrain
    \/ \E h \in Handles :
         \/ WorkerOpen(h)
         \/ WorkerReceive(h)
         \/ \E t \in tasks[h] :
              WorkerSettle(h, t) \/ WorkerWrite(h, t) \/ WorkerNotify(h, t)

LiveSpec == Spec /\ WF_vars(Progress)

\* the same program with one more invocation: the cases that need three
\* sequential calls of a handle
DeepCalls == MaxCalls + 1

NextDeep ==
    \/ Next
    \/ \E h \in Handles, inv \in Invocations, id \in Ids \cup {NoId} :
         InvokeUpTo(DeepCalls, h, inv, id)

DeepSpec == Init /\ [][NextDeep]_vars

(* ================================================================ claims *)

\* what an invocation must do when its computation settled as r
Expected(r) == IF r.status = "fulfilled" THEN Return(r.val) ELSE Throw(r.val)

\* C1: an invocation whose wrapped computation fulfils with a plain value v
\* returns a value equal to v to the caller.
C1_ReturnsFulfilledValue ==
    (last.seq > 0 /\ last.exec.status = "fulfilled" /\ Clonable(last.exec.val))
        => last.out = Return(last.exec.val)

\* C2: the wrapped computation is invoked with exactly the context value and
\* the ordered argument sequence of the call envelope the caller sent.
C2_ComputationGetsContextAndArgs ==
    \A h \in Handles : \A t \in tasks[h] :
        t.that = t.sentThat /\ t.args = t.sentArgs

\* C3: an invocation whose wrapped computation rejects with an error e raises
\* e at the caller.
C3_RaisesRejectionReason ==
    (last.seq > 0 /\ last.exec.status = "rejected" /\ Clonable(last.exec.val))
        => last.out = Throw(last.exec.val)

\* C4: the i-th invocation returns or raises the outcome of the i-th
\* execution of the wrapped computation, consumes the settle envelope of
\* that execution and no other, and the signal word is 0 when it returns.
C4_SequentialCallsIndependent ==
    last.seq > 0 =>
        /\ last.got = last.seq
        /\ last.exec.status # "none"
        /\ Clonable(last.exec.val) => last.out = Expected(last.exec)
        /\ last.sig = 0

\* C5: after the factory has returned a handle and before any invocation,
\* no worker thread, open handshake or signal word exists for the handle.
C5_FactoryCreatesNoThread ==
    calls = 0 =>
        \A h \in Handles :
            worker[h] = "none" /\ inbox[h] = <<>> /\ signal[h] = NoSignal

\* C6: the invocation that follows a full idle window finds its session
\* terminated and starts it again: a new thread whose open handshake is
\* under way.
C6_IdleSessionRespawned ==
    [][(pc = "idle" /\ pc' = "post" /\ idle = IdleWindow /\ opened[cur'.h])
          => /\ worker'[cur'.h] = "running"
             /\ ~opened'[cur'.h]
             /\ inbox'[cur'.h] = <<OpenMessage>>]_vars

\* C7: the session of a handle that became unreachable is eventually
\* terminated, and the disposal tracker runs only for unreachable handles.
C7_DroppedHandleTerminated ==
    /\ \A h \in Handles : (handle[h] = "dropped") ~> (worker[h] = "terminated")
    /\ [][\A h \in Handles :
            (h \in registered /\ h \notin registered')
                => handle[h] = "dropped"]_vars

C7_Witness ==
    \E h \in Handles :
        handle[h] = "dropped" /\ worker[h] = "terminated" /\ h \notin registered

\* C8: a factory call with an argument that is no function raises a
\* TypeError and creates nothing: no thread, channel, signal word or
\* registration.
C8_NonCallableCreatesNothing ==
    [][(lastFactory' = "TypeError" /\ lastFactory # "TypeError")
          => UNCHANGED <<handle, fn, registered, worker, inbox, opened, signal,
                         toWorker, toCaller, tasks>>]_vars

C8_Witness ==
    /\ lastFactory = "TypeError"
    /\ handle["w1"] = "live"
    /\ handle["w2"] = "none" /\ worker["w2"] = "none" /\ signal["w2"] = NoSignal

\* C9: an invocation that finds no settle envelope when its wait returns
\* raises an error with a diagnostic, never an empty error value.
C9_ProtocolErrorHasDiagnostic ==
    (last.seq > 0 /\ last.got = 0)
        => last.out.kind = "throw" /\ last.out.val.s # ""

\* C10: when the outcome of the computation cannot be cloned, the dispatcher
\* still settles the call: the caller is never left asleep on a signal word
\* that no listener will write.
C10_UnclonableStillSettles ==
    ~ /\ pc = "asleep"
      /\ cur.exec.status # "none"
      /\ ~Clonable(cur.exec.val)
      /\ \A t \in tasks[cur.h] : t.seq # cur.seq

\* C11: an invocation started while the signal word of its session is not
\* Available fails at once and leaves the signal word and the channel
\* queues as they are.
C11_BusySessionFailsFast ==
    [][(pc = "idle" /\ calls' = calls + 1 /\ signal[cur'.h] # 0)
          => /\ pc' = "idle"
             /\ signal'[cur'.h] = signal[cur'.h]
             /\ toWorker' = toWorker /\ toCaller' = toCaller]_vars

\* C12: once the call envelope is posted, every argument that isTransferable
\* classifies as transferable has been moved to the worker side: its
\* caller-side object is detached, not copied.
C12_TransferablesMoved ==
    pc \in {"wait", "asleep", "reset", "drain"}
       => \A i \in 1..Len(cur.args) :
             isTransferable(cur.args[i]) => i \in cur.moved

\* the session of a handle: its thread, its channel and its signal word
SessionState(h) ==
    <<worker[h], opened[h], inbox[h], signal[h], toWorker[h], toCaller[h],
      tasks[h]>>

C14_SignalCycle ==
    /\ [](\A h \in Handles : signal[h] \in {NoSignal, 0, 1, 2})
    /\ [][\A h \in Handles :
            (signal[h] # NoSignal /\ signal'[h] # signal[h])
               => \/ /\ signal[h] = 0 /\ signal'[h] = 1
                     /\ pc = "idle" /\ pc' = "post"
                  \/ /\ signal[h] = 1 /\ signal'[h] = 2
                     /\ tasks'[h] # tasks[h] /\ pc' = pc
                  \/ /\ signal[h] = 2 /\ signal'[h] = 0
                     /\ pc = "reset" /\ pc' = "drain"]_vars

\* C15: no wakeup is lost: once the worker has written Resolved, a caller
\* that is about to wait or already sleeps in its wait gets out of the
\* wait, also when the write and the notify came before the wait started.
C15_NoLostWakeup ==
    (pc \in {"wait", "asleep"} /\ signal[cur.h] = 2)
       ~> (pc \notin {"wait", "asleep"})

\* the worker has written Resolved and notified before the caller started
\* to wait
C15_Witness ==
    /\ pc = "wait" /\ signal[cur.h] = 2
    /\ worker[cur.h] = "running" /\ tasks[cur.h] = {}

\* C16: when the caller's wait has returned and the signal word is
\* Resolved, the queue of the port that the caller polls holds exactly one
\* message, the settle envelope of the current call.
C16_SettleQueuedBeforeResolved ==
    (pc = "reset" /\ signal[cur.h] = 2)
       => /\ Len(toCaller[cur.h]) = 1
          /\ toCaller[cur.h][1].seq = cur.seq

\* C17: the caller is out of its wait (and so able to return or raise)
\* only after the computation of the current call has settled in the
\* worker and the worker has written Resolved; until then it stays in the
\* wait with the signal word at Pending.
C17_BlockedUntilSettled ==
    /\ pc \in {"reset", "drain"} => cur.exec.status # "none"
    /\ pc = "reset" => signal[cur.h] = 2
    /\ (pc \in {"wait", "asleep"} /\ cur.exec.status = "none")
          => signal[cur.h] = 1

\* C18: the settle envelope whose outcome an invocation accepts (returns
\* its value or raises its reason) answers the call envelope that this
\* invocation sent.
C18_SettleAnswersOwnCall ==
    (last.seq > 0 /\ last.got # 0 /\ last.out # Throw(EmptyObject))
       => last.got = last.seq

\* C19: terminating a session that is already terminated changes nothing
\* of it: a step that is not a step of an invocation (the finalizer's
\* callback, a terminate of the exposed worker, the idle window, a step of
\* another session) leaves the thread, the queues and the signal word of a
\* terminated session as they are, and the handle stays as it is.
C19_TerminateIdempotent ==
    [][\A h \in Handles :
          (worker[h] = "terminated" /\ pc' = pc)
             => /\ SessionState(h)' = SessionState(h)
                /\ handle'[h] \in {handle[h], "dropped"}]_vars

\* the finalizer's callback has run for a handle whose worker had been
\* terminated before
C19_Witness ==
    \E h \in repeats :
       worker[h] = "terminated" /\ handle[h] = "dropped" /\ h \notin registered

\* C20: a call envelope posted before the worker has processed the open
\* message is not lost: it stays queued on the port until the call listener
\* is attached, it is taken from the queue once, and the invocation that
\* posted it comes to its end.
C20_EarlyCallCompletes ==
    /\ [][\A h \in Handles :
            (~opened[h] /\ worker'[h] = "running")
               => /\ Len(toWorker'[h]) >= Len(toWorker[h])
                  /\ SubSeq(toWorker'[h], 1, Len(toWorker[h])) = toWorker[h]]_vars
    /\ [](\A h \in Handles : \A i \in 1..Len(toWorker[h]) :
            \A t \in tasks[h] : t.seq # toWorker[h][i].seq)
    /\ (pc = "wait" /\ ~opened[cur.h] /\ toWorker[cur.h] # <<>>)
          ~> (pc = "idle")
====
